---- MODULE Spec2Model ----
(***************************************************************************)
(* Model of monday_extract_groups.py: the three fetch functions            *)
(* (fetch_groups, fetch_items, fetch_items_recursive) against a remote     *)
(* GraphQL service, and export_items_to_csv against a file.                *)
(*                                                                         *)
(* A JSON response is a record                                             *)
(*   [status, errors, shape, itemsKind, items, cursor]                     *)
(* where shape says how far the nested structure of the body is present,   *)
(* itemsKind/items are the "items" entry of the page object and cursor is  *)
(* its "cursor" entry.  Python's None is the string NoneVal, an absent     *)
(* dictionary key is the string Absent.                                    *)
(***************************************************************************)
EXTENDS Integers, Sequences, FiniteSets, TLC

\* ---------------------------------------------------------------- bounds
\* The request counter saturates at MaxFetches.
MaxFetches == 5
\* Longest accumulator the unconstrained service is allowed to build.
MaxAcc == 3
\* Largest group (number of items) held by the paging service.
MaxTotal == 4
\* Largest page size the caller passes to the paging service.
MaxLimit == 2
\* Longest item sequence handed to export_items_to_csv.
MaxExportItems == 2
\* Most column values an exported item has.
MaxCols == 2

\* ------------------------------------------------------------- constants
\* limit=500, the default page size of fetch_items_recursive.
DefaultLimit == 500
\* HTTP status the code accepts.
StatusOK == 200

NoneVal == "<None>"
Absent == "<absent>"

\* A cursor of the data model is present when it is neither null nor empty.
CursorPresent(c) == c \notin {NoneVal, Absent, ""}

\* ------------------------------------------------------- python helpers
Min(a, b) == IF a < b THEN a ELSE b

GetCursorRaw(c) == c
\* dict.get('cursor'): an absent key reads as None.
GetCursor(c) == IF c = Absent THEN NoneVal ELSE c

\* dict.get('items', []): an absent key reads as the empty list.
GetItems(r) == IF r.itemsKind = "absent" THEN << >> ELSE r.items


ExtendReplace(acc, items) == items
ExtendSet(acc, items) ==
  acc \o SelectSeq(items, LAMBDA x : \A i \in 1..Len(acc) : acc[i] # x)
\* all_items.extend(items)
Extend(acc, items) == acc \o items

\* ------------------------------------------------------------- responses
Resp(st, er, sh, ik, it, cu) ==
  [status |-> st, errors |-> er, shape |-> sh, itemsKind |-> ik, items |-> it,
   cursor |-> cu]

Malformed(sh) == Resp(StatusOK, FALSE, sh, "absent", << >>, Absent)

\* Responses that never reach the extraction of the page.
EarlyResponses ==
  { Resp(500, FALSE, "ok", "absent", << >>, Absent),
    Resp(StatusOK, TRUE, "ok", "absent", << >>, Absent),
    Malformed("not_json") }

FirstShapes ==
  { "data_absent", "data_null", "boards_absent", "boards_null", "boards_empty",
    "board_null", "groups_absent", "groups_null", "groups_empty", "group_null",
    "items_page_absent", "items_page_null" }

NextShapes == { "data_absent", "data_null", "next_items_page_absent",
                "next_items_page_null" }

FreePages == { << >>, <<1>>, <<2, 1>> }
FreeCursors == { Absent, NoneVal, "", "c1", "c2" }

\* Page objects the unconstrained service may send.
PageResponses ==
  { Resp(StatusOK, FALSE, "ok", "list", p, c) : p \in FreePages, c \in FreeCursors }
  \cup { Resp(StatusOK, FALSE, "ok", k, << >>, c) :
           k \in {"absent", "null"}, c \in FreeCursors }

FirstResponses ==
  EarlyResponses \cup { Malformed(s) : s \in FirstShapes } \cup PageResponses

NextResponses ==
  EarlyResponses \cup { Malformed(s) : s \in NextShapes } \cup PageResponses

\* ------------------------------------------------------ the paging service
\* A well-behaved service holding items 1..m: it serves consecutive full pages
\* and returns a cursor exactly when items remain after the page.
CursorTokens == <<"c1", "c2", "c3", "c4", "c5", "c6", "c7", "c8">>

Position(c) == CHOOSE p \in 1..Len(CursorTokens) : CursorTokens[p] = c

PagedPage(m, from, n) ==
  LET upto == Min(from + n, m)
  IN Resp(StatusOK, FALSE, "ok", "list", [i \in 1..(upto - from) |-> from + i],
          IF upto < m THEN CursorTokens[upto] ELSE NoneVal)

PagedFirst(m, n) == PagedPage(m, 0, n)

PagedNext(m, rq) ==
  IF \E p \in 1..Len(CursorTokens) : CursorTokens[p] = rq.cursor
  THEN PagedPage(m, Position(rq.cursor), rq.limit)
  ELSE Resp(StatusOK, TRUE, "ok", "absent", << >>, Absent)

\* --------------------------------------------------- response extraction
\* The exception raised by
\*   group = data['data']['boards'][0]['groups'][0]
\*   items_page = group.get('items_page', {})
\*   items = items_page.get('items', [])
\*   all_items.extend(items)
\*   cursor = items_page.get('cursor')
\* on body r, or "none".
FirstExc(r) ==
  CASE r.shape = "data_absent" -> "KeyError"
    [] r.shape = "data_null" -> "TypeError"
    [] r.shape = "boards_absent" -> "KeyError"
    [] r.shape = "boards_null" -> "TypeError"
    [] r.shape = "boards_empty" -> "IndexError"
    [] r.shape = "board_null" -> "TypeError"
    [] r.shape = "groups_absent" -> "KeyError"
    [] r.shape = "groups_null" -> "TypeError"
    [] r.shape = "groups_empty" -> "IndexError"
    [] r.shape = "group_null" -> "AttributeError"
    [] r.shape = "items_page_absent" -> "none"
    [] r.shape = "items_page_null" -> "AttributeError"
    [] OTHER -> IF r.itemsKind = "null" THEN "TypeError" ELSE "none"

\* The exception raised by
\*   next_page = data['data']['next_items_page']
\*   items = next_page.get('items', [])
\*   all_items.extend(items)
\*   cursor = next_page.get('cursor')
\* on body r, or "none".
NextExc(r) ==
  CASE r.shape = "data_absent" -> "KeyError"
    [] r.shape = "data_null" -> "TypeError"
    [] r.shape = "next_items_page_absent" -> "KeyError"
    [] r.shape = "next_items_page_null" -> "AttributeError"
    [] OTHER -> IF r.itemsKind = "null" THEN "TypeError" ELSE "none"

\* except (IndexError, KeyError) around the first extraction
CaughtFirst == { "IndexError", "KeyError" }
\* except (KeyError, TypeError) around the next-page extraction
CaughtNext == { "KeyError", "TypeError" }

\* sys.exit(1): the call never returns to the function.
SysExit == "exit"

NoItemsFatal == "exit"
\* fetch_items on an empty item list: print and `return []`.
NoItemsPc == "ret"

\* ------------------------------------------------------------------ state
VARIABLES
  mode,        \* "free": the service answers anything; "paged": the paging service
  total,       \* number of items the paging service holds
  limit,       \* page size passed by the caller
  svcFirst,    \* the service's answer to the first-page query of board/group
  pc,          \* fetch_items_recursive: start, first_wait, loop, next_wait,
               \* done (returned), exit (sys.exit), crash (uncaught exception)
  all_items,   \* the accumulator
  cursor,      \* the held cursor
  result,      \* the returned list (meaningful when pc = "done")
  printed,     \* what fetch_items_recursive reported: none, transport, graphql,
               \* shape, traceback
  req,         \* the last request fetch_items_recursive issued
  resp,        \* the last response fetch_items_recursive received
  fetches,     \* requests issued by fetch_items_recursive (saturating)
  present,     \* responses that carried a truthy cursor (saturating)
  served,      \* every item the service sent to fetch_items_recursive, in order
  seen,        \* truthy cursors received before the latest response
  repeat,      \* the latest response repeated a cursor of `seen`
  fg_pc, fg_resp, fg_result,   \* fetch_groups: idle, ret, exit, crash
  fi_pc, fi_fetches, fi_result, \* fetch_items: idle, ret, exit, crash
  ex_items,    \* export_items_to_csv: the items argument
  ex_pc,       \* idle, start, rows, done, noop, raised
  ex_i,        \* index of the item the row loop is at
  fieldnames,  \* the DictWriter's fieldnames
  file         \* the export artifact: [exists, rows]

fetchVars == << mode, total, limit, svcFirst, pc, all_items, cursor, result, printed,
                req, resp, fetches, present, served, seen, repeat >>
otherFetchVars == << fg_pc, fg_resp, fg_result, fi_pc, fi_fetches, fi_result >>
exportVars == << ex_items, ex_pc, ex_i, fieldnames, file >>
vars == << fetchVars, otherFetchVars, exportVars >>

NoReq == [kind |-> "none", limit |-> 0, cursor |-> NoneVal]
NoResp == Malformed("none")
NoFile == [exists |-> FALSE, rows |-> << >>]

TruthyEmptyString(c) == c # NoneVal
TruthyCeiling(c) == c \notin {NoneVal, ""} /\ fetches < 3
TruthyNonEmptyPage(c) == c \notin {NoneVal, ""} /\ resp.items # << >>
TruthyUnseen(c) == c \notin {NoneVal, ""} /\ ~repeat
\* `while cursor:` -- None and the empty string are both falsy.
Truthy(c) == c \notin {NoneVal, ""}

\* sys.exit or an uncaught exception anywhere ends the process.
Dead == pc \in {"exit", "crash"} \/ fg_pc \in {"exit", "crash"}
        \/ fi_pc \in {"exit", "crash"}

\* ------------------------------------------------------------------- init
FetchIdle ==
  /\ pc = "start" /\ all_items = << >> /\ cursor = NoneVal /\ result = << >>
  /\ printed = "none" /\ req = NoReq /\ resp = NoResp
  /\ fetches = 0 /\ present = 0 /\ served = << >> /\ seen = {} /\ repeat = FALSE
  /\ fg_pc = "idle" /\ fg_resp = NoResp /\ fg_result = << >>
  /\ fi_pc = "idle" /\ fi_fetches = 0 /\ fi_result = << >>

ExportIdle ==
  /\ ex_items = << >> /\ ex_pc = "idle" /\ ex_i = 0 /\ fieldnames = << >>
  /\ file = NoFile

FreeService ==
  /\ mode = "free" /\ total = 0 /\ limit = DefaultLimit
  /\ svcFirst \in FirstResponses

PagedService ==
  /\ mode = "paged" /\ total \in 0..MaxTotal /\ limit \in 1..MaxLimit
  /\ svcFirst = PagedFirst(total, limit)

Init == (FreeService \/ PagedService) /\ FetchIdle /\ ExportIdle

\* ----------------------------------------------------------- fetch_groups
GroupShapes ==
  { "data_absent", "data_null", "boards_absent", "boards_null", "boards_empty",
    "board_null", "groups_absent", "groups_null", "groups_empty" }

GroupLists == { <<1>>, <<1, 2>> }

\* Answers to the groups query; items holds the board's non-empty group list.
GroupResponses ==
  EarlyResponses \cup { Malformed(s) : s \in GroupShapes }
  \cup { Resp(StatusOK, FALSE, "ok", "list", g, Absent) : g \in GroupLists }

\* boards = data.get('data', {}).get('boards', []); board = boards[0];
\* groups = board.get('groups', []): the exception raised, or "none".
GetExc(r) ==
  CASE r.shape = "data_null" -> "AttributeError"
    [] r.shape = "board_null" -> "AttributeError"
    [] r.shape = "group_null" -> "AttributeError"
    [] r.shape = "items_page_null" -> "AttributeError"
    [] OTHER -> "none"

\* `if not boards` / `if not groups`: absent, null and empty are all falsy.
NoBoards(r) == r.shape \in {"data_absent", "boards_absent", "boards_null", "boards_empty"}
NoGroups(r) == r.shape \in {"groups_absent", "groups_null", "groups_empty"}

GroupsFatalReturn == "ret"
\* fetch_groups on an empty group list: print and sys.exit(1).
NoGroupsPc == "exit"

\* The outcome of fetch_groups on response r.
FetchGroupsPc(r) ==
  IF r.status # StatusOK THEN "exit"
  ELSE IF r.shape = "not_json" THEN "crash"
  ELSE IF r.errors THEN "exit"
  ELSE IF GetExc(r) # "none" THEN "crash"
  ELSE IF NoBoards(r) THEN "exit"
  ELSE IF NoGroups(r) THEN NoGroupsPc
  ELSE "ret"

FetchGroups ==
  /\ fg_pc = "idle" /\ fi_pc = "idle" /\ pc = "start"
  /\ \E r \in GroupResponses :
       /\ fg_resp' = r
       /\ fg_pc' = FetchGroupsPc(r)
       /\ fg_result' = IF FetchGroupsPc(r) = "ret" /\ r.shape = "ok" THEN r.items ELSE << >>
  /\ UNCHANGED << fetchVars, fi_pc, fi_fetches, fi_result, exportVars >>

\* ------------------------------------------------------------ fetch_items
\* `if not items`: absent, null and empty are all falsy.
NoItems(r) == r.shape = "items_page_absent" \/ r.itemsKind \in {"absent", "null"}
              \/ r.items = << >>

FetchItemsResultTail(r) == IF NoItems(r) THEN << >> ELSE Tail(r.items)
\* What fetch_items returns: [] when `not items`, else the items of the page.
FetchItemsResult(r) == IF NoItems(r) THEN << >> ELSE r.items

\* The outcome of fetch_items on response r.
FetchItemsPc(r) ==
  IF r.status # StatusOK THEN "exit"
  ELSE IF r.shape = "not_json" THEN "crash"
  ELSE IF r.errors THEN "exit"
  ELSE IF GetExc(r) # "none" THEN "crash"
  ELSE IF NoBoards(r) THEN "exit"
  ELSE IF NoGroups(r) THEN "exit"
  ELSE IF NoItems(r) THEN NoItemsPc
  ELSE "ret"

FetchItems ==
  /\ fi_pc = "idle" /\ pc \in {"start", "done"} /\ ~Dead
  /\ fi_fetches' = fi_fetches + 1
  /\ fi_pc' = FetchItemsPc(svcFirst)
  /\ fi_result' = IF FetchItemsPc(svcFirst) = "ret" THEN FetchItemsResult(svcFirst)
                  ELSE << >>
  /\ UNCHANGED << fetchVars, fg_pc, fg_resp, fg_result, exportVars >>

\* -------------------------------------------------- fetch_items_recursive
Bump(n) == Min(n + 1, MaxFetches)

\* The first requests.post: board, group and limit.
SendFirst ==
  /\ pc = "start" /\ ~Dead
  /\ req' = [kind |-> "first", limit |-> limit, cursor |-> NoneVal]
  /\ fetches' = Bump(fetches)
  /\ pc' = "first_wait"
  /\ UNCHANGED << mode, total, limit, svcFirst, all_items, cursor, result, printed,
                  resp, present, served, seen, repeat, otherFetchVars, exportVars >>

\* What the function does with response r, whose extraction raises exc and is
\* guarded by `except caught`: status check, response.json(), errors check,
\* extraction, and on success the accumulation and the new cursor.
Handle(r, exc, caught) ==
  /\ resp' = r
  /\ served' = served \o r.items
  /\ IF r.status # StatusOK
     THEN /\ pc' = SysExit /\ printed' = "transport"
          /\ UNCHANGED << all_items, cursor, present, seen, repeat >>
     ELSE IF r.shape = "not_json"
     THEN /\ pc' = "crash" /\ printed' = "traceback"
          /\ UNCHANGED << all_items, cursor, present, seen, repeat >>
     ELSE IF r.errors
     THEN /\ pc' = SysExit /\ printed' = "graphql"
          /\ UNCHANGED << all_items, cursor, present, seen, repeat >>
     ELSE IF exc \in caught
     THEN /\ pc' = SysExit /\ printed' = "shape"
          /\ UNCHANGED << all_items, cursor, present, seen, repeat >>
     ELSE IF exc # "none"
     THEN /\ pc' = "crash" /\ printed' = "traceback"
          /\ UNCHANGED << all_items, cursor, present, seen, repeat >>
     ELSE /\ all_items' = Extend(all_items, GetItems(r))
          /\ cursor' = GetCursor(r.cursor)
          /\ pc' = "loop"
          /\ present' = IF CursorPresent(GetCursor(r.cursor)) THEN Bump(present)
                         ELSE present
          /\ seen' = IF CursorPresent(cursor) THEN seen \cup {cursor} ELSE seen
          /\ repeat' = (GetCursor(r.cursor) \in seen')
          /\ UNCHANGED printed
  /\ UNCHANGED << mode, total, limit, svcFirst, result, req, fetches,
                  otherFetchVars, exportVars >>

\* Lines 243-265: the response to the first request.
RecvFirst ==
  /\ pc = "first_wait"
  /\ Handle(svcFirst, FirstExc(svcFirst), CaughtFirst)

NextVariablesStale(lim, cur) ==
  [kind |-> "next", limit |-> lim,
   cursor |-> IF req.kind = "next" THEN req.cursor ELSE cur]
\* next_variables = {"limit": limit, "cursor": cursor}
NextVariables(lim, cur) == [kind |-> "next", limit |-> lim, cursor |-> cur]

\* `while cursor:` taken: the next requests.post, with limit and the held cursor.
SendNext ==
  /\ pc = "loop" /\ Truthy(cursor)
  /\ req' = NextVariables(limit, cursor)
  /\ fetches' = Bump(fetches)
  /\ pc' = "next_wait"
  /\ UNCHANGED << mode, total, limit, svcFirst, all_items, cursor, result, printed,
                  resp, present, served, seen, repeat, otherFetchVars, exportVars >>

\* The answers the service may give to the request in flight.
Answers ==
  IF mode = "paged" THEN { PagedNext(total, req) }
  ELSE { r \in NextResponses : Len(all_items) + Len(r.items) <= MaxAcc }

\* Lines 296-317: the response to a next-page request.
RecvNext ==
  /\ pc = "next_wait"
  /\ \E r \in Answers : Handle(r, NextExc(r), CaughtNext)

\* `while cursor:` not taken: `return all_items`.
Return ==
  /\ pc = "loop" /\ ~Truthy(cursor)
  /\ result' = all_items
  /\ pc' = "done"
  /\ UNCHANGED << mode, total, limit, svcFirst, all_items, cursor, printed, req, resp,
                  fetches, present, served, seen, repeat, otherFetchVars, exportVars >>

Recursive == SendFirst \/ RecvFirst \/ SendNext \/ RecvNext \/ Return

Next == FetchGroups \/ FetchItems \/ SendFirst \/ RecvFirst \/ SendNext \/ RecvNext
        \/ Return

Spec == Init /\ [][Next]_vars

\* ---------------------------------------------------- export_items_to_csv
\* The board's columns, in the order the service lists them.
BoardColumns == SubSeq(<<"c1", "c2", "c3", "c4">>, 1, MaxCols)
Texts == { NoneVal, "x" }

\* The column_values an item may carry: any of the board's columns, each once,
\* in board order, each with a text that is a string or null.
ColumnValues ==
  LET Pick == [1..MaxCols -> Texts \cup {Absent}]
      Kept(f) == SelectSeq([i \in 1..MaxCols |-> i], LAMBDA i : f[i] # Absent)
  IN { [j \in 1..Len(Kept(f)) |-> [id |-> BoardColumns[Kept(f)[j]], text |-> f[Kept(f)[j]]]]
       : f \in Pick }

ExportItems ==
  { [id |-> k[1], name |-> k[2], column_values |-> cv] :
      k \in { <<"1", "a">>, <<"2", "b">> }, cv \in ColumnValues }

ExportInputs == UNION { [1..n -> ExportItems] : n \in 0..MaxExportItems }

OldFile == [exists |-> TRUE, rows |-> << <<"old">> >>]

InitExport ==
  /\ mode = "free" /\ total = 0 /\ limit = DefaultLimit /\ svcFirst = NoResp
  /\ FetchIdle
  /\ ex_items \in ExportInputs /\ ex_pc = "start" /\ ex_i = 0 /\ fieldnames = << >>
  /\ file \in { NoFile, OldFile }

\* headers = ['Item ID', 'Item Name'] + [column['id'] for column in items[0]['column_values']]
Headers(item) ==
  <<"Item ID", "Item Name">> \o [j \in 1..Len(item.column_values) |-> item.column_values[j].id]

Keys(item) ==
  {"Item ID", "Item Name"} \cup { item.column_values[j].id : j \in 1..Len(item.column_values) }

\* row = {'Item ID': item['id'], 'Item Name': item['name']}, then
\* row[column['id']] = column.get('text', '') for each column, later writes winning.
RowDict(item) ==
  [k \in Keys(item) |->
     IF \E j \in 1..Len(item.column_values) : item.column_values[j].id = k
     THEN LET last == CHOOSE j \in 1..Len(item.column_values) :
                        /\ item.column_values[j].id = k
                        /\ \A h \in (j + 1)..Len(item.column_values) :
                             item.column_values[h].id # k
          IN item.column_values[last].text
     ELSE IF k = "Item ID" THEN item.id ELSE item.name]

\* The csv writer's rendering of a field: None is written as the empty string.
Str(v) == IF v = NoneVal THEN "" ELSE v

ExtrasIgnored(row, names) == {}
\* DictWriter (extrasaction='raise'): the keys of the row that are no fieldnames.
WrongFields(row, names) == DOMAIN row \ { names[i] : i \in 1..Len(names) }

\* DictWriter._dict_to_list: each fieldname's value, restval '' when missing.
DictToList(row, names) ==
  [i \in 1..Len(names) |-> IF names[i] \in DOMAIN row THEN Str(row[names[i]]) ELSE ""]

BeginFileOpenFirst(items, f) ==
  IF items = << >> THEN [exists |-> TRUE, rows |-> << >>]
  ELSE [exists |-> TRUE, rows |-> << Headers(items[1]) >>]
\* The artifact after lines 163-175: untouched when `not items` returns early,
\* else truncated by open(filename, 'w') and holding the header row.
BeginFile(items, f) ==
  IF items = << >> THEN f ELSE [exists |-> TRUE, rows |-> << Headers(items[1]) >>]

\* Lines 163-175: the empty check, the headers, open(filename, 'w') and writeheader().
ExportBegin ==
  /\ ex_pc = "start"
  /\ IF ex_items = << >>
     THEN ex_pc' = "noop" /\ UNCHANGED << ex_i, fieldnames >>
     ELSE /\ fieldnames' = Headers(ex_items[1])
          /\ ex_i' = 1
          /\ ex_pc' = "rows"
  /\ file' = BeginFile(ex_items, file)
  /\ UNCHANGED << fetchVars, otherFetchVars, ex_items >>

\* Lines 177-184: one turn of `for item in items`, ending in writer.writerow(row);
\* its ValueError leaves the function through the `with`, which closes the file.
ExportRow ==
  /\ ex_pc = "rows" /\ ex_i <= Len(ex_items)
  /\ LET row == RowDict(ex_items[ex_i])
     IN IF WrongFields(row, fieldnames) # {}
        THEN ex_pc' = "raised" /\ UNCHANGED << ex_i, file >>
        ELSE /\ file' = [file EXCEPT !.rows = Append(@, DictToList(row, fieldnames))]
             /\ ex_i' = ex_i + 1
             /\ UNCHANGED ex_pc
  /\ UNCHANGED << fetchVars, otherFetchVars, ex_items, fieldnames >>

\* Line 186: the loop is over, the file is closed, the count is printed.
ExportEnd ==
  /\ ex_pc = "rows" /\ ex_i > Len(ex_items)
  /\ ex_pc' = "done"
  /\ UNCHANGED << fetchVars, otherFetchVars, ex_items, ex_i, fieldnames, file >>

NextExport == ExportBegin \/ ExportRow \/ ExportEnd

SpecExport == InitExport /\ [][NextExport]_vars

\* csv.DictReader over the artifact: one dict per row after the header row.
ReadBack(rows) ==
  [i \in 1..(Len(rows) - 1) |->
     [h \in { rows[1][j] : j \in 1..Len(rows[1]) } |->
        rows[i + 1][CHOOSE j \in 1..Len(rows[1]) :
                      /\ rows[1][j] = h
                      /\ \A g \in (j + 1)..Len(rows[1]) : rows[1][g] # h]]]

\* The pagination driver alone, against a service that always answers: the
\* call is synchronous, so the function always takes its next step.
InitLoop == FreeService /\ FetchIdle /\ ExportIdle

SpecLoop == InitLoop /\ [][Recursive]_vars /\ WF_vars(Recursive)

\* ================================================================ claims
Terminal == {"done", "exit", "crash"}
Aborted == {"exit", "crash"}

Ceil(m, n) == (m + n - 1) \div n
Max(a, b) == IF a > b THEN a ELSE b
Range(n) == [i \in 1..n |-> i]

\* A well-formed page object: the Page of the data model.
IsPage(r) ==
  r.status = StatusOK /\ ~r.errors /\ r.shape = "ok" /\ r.itemsKind # "null"

\* A page of a group that exists and holds no items.
EmptyGroup(r) ==
  IsPage(r) /\ r.itemsKind = "list" /\ r.items = << >> /\ ~CursorPresent(GetCursor(r.cursor))

\* A failure in the sense of the error taxonomy: transport error, service-reported
\* error, or a body that deviates from the expected nested shape.
IsFailure(r) ==
  r # NoResp /\ (r.status # StatusOK \/ r.errors \/ r.shape # "ok" \/ r.itemsKind = "null")

\* A 200/no-errors JSON body that deviates from the expected nested shape.
Deviates(r) ==
  /\ r.status = StatusOK /\ ~r.errors
  /\ r.shape \in FirstShapes \cup NextShapes \/ (r.shape = "ok" /\ r.itemsKind = "null")

\* C1: once the held cursor is null or empty, the driver's only step is to
\* return the accumulator; no request is issued then or after the return.
C1_NullCursorStops ==
  [][ (pc \in {"loop", "done"} /\ cursor \in {NoneVal, ""})
      => (pc' = "done" /\ result' = all_items /\ fetches' = fetches /\ req' = req) ]_vars

C1_Witness == pc = "done" /\ cursor = "" /\ fetches = 2 /\ resp.cursor = ""

\* C2: the returned list is the concatenation, in arrival order, of the items
\* of every page the service sent; nothing dropped, deduplicated or reordered.
C2_ResultIsConcatenation == pc = "done" => result = served

C2_Witness == pc = "done" /\ result = <<1, 2, 1>> /\ fetches = 2

\* C3 (as the spec words it): against the paging service the traversal ends
\* after ceil(M/N) fetches plus the first, with the M items in order.
C3_Original ==
  (mode = "paged" /\ pc = "done")
  => (fetches = Ceil(total, limit) + 1 /\ result = Range(total))

\* C3 (amended): against the paging service the traversal never aborts, can
\* always step until it returns (unless the process died before it began), issues max(1, ceil(M/N)) fetches in total,
\* the first included, and returns the M items in order.
C3_PagedTraversal ==
  mode = "paged"
  => /\ pc \notin Aborted
     /\ fetches <= Max(1, Ceil(total, limit))
     /\ (pc # "done" /\ ~Dead) => ENABLED Recursive
     /\ pc = "done" => (fetches = Max(1, Ceil(total, limit)) /\ result = Range(total))

C3_Witness ==
  mode = "paged" /\ pc = "done" /\ total = 3 /\ limit = 2 /\ fetches = 2
  /\ result = <<1, 2, 3>>

\* C4: after any failure (non-200, errors list, shape error) the driver has
\* aborted: nothing is returned and no further step of the driver is possible.
C4_FailureAborts ==
  IsFailure(resp) => (pc \in Aborted /\ result = << >> /\ ~ENABLED Recursive)

\* C5: a response missing the items-page key (items_page of the group, or
\* next_items_page) ends in the reported shape error, not in a return.
C5_MissingPageKey ==
  resp.shape \in {"items_page_absent", "next_items_page_absent"}
  => (pc = "exit" /\ printed = "shape")

\* C6: every deviation of a 200/no-errors body from the expected structure
\* ends in the reported shape error (message printed, exit 1).
C6_ShapeDeviation == Deviates(resp) => (pc = "exit" /\ printed = "shape")

\* C7: if the first page's cursor is absent (missing, null or empty), exactly
\* one fetch is issued and the driver returns the items of that page.
C7_FirstCursorAbsent ==
  (pc \notin {"start", "first_wait"} /\ IsPage(svcFirst)
     /\ ~CursorPresent(GetCursor(svcFirst.cursor)))
  => /\ fetches = 1
     /\ pc \in {"loop", "done"}
     /\ pc = "loop" => (ENABLED Return /\ ~ENABLED SendNext)
     /\ pc = "done" => result = GetItems(svcFirst)

C7_Witness ==
  pc = "done" /\ fetches = 1 /\ svcFirst.cursor = Absent /\ result = <<2, 1>>

\* C8 (as the spec words it): when a next-page response repeats a cursor seen
\* before, the driver eventually stops instead of looping forever.
C8_Original == repeat ~> (pc \in Terminal)

\* C8 (amended): there is no page ceiling; when a response repeats a cursor
\* seen before, the driver's next step is another request with that cursor.
C8_NoCeiling ==
  [][ (pc = "loop" /\ repeat)
      => (pc' = "next_wait" /\ req'.cursor = cursor /\ fetches' = Bump(fetches)) ]_vars

C8_Witness == pc = "next_wait" /\ repeat /\ req.cursor = cursor /\ cursor \in seen

\* C9: no groups in the board is fatal for fetch_groups; a group that exists
\* and holds no items makes fetch_items and fetch_items_recursive return the
\* empty list.
C9_EmptyResults ==
  /\ (fg_pc # "idle" /\ fg_resp.status = StatusOK /\ ~fg_resp.errors /\ NoGroups(fg_resp))
     => (fg_pc = "exit" /\ fg_result = << >>)
  /\ (fi_pc # "idle" /\ IsPage(svcFirst) /\ svcFirst.itemsKind = "list"
        /\ svcFirst.items = << >>)
     => (fi_pc = "ret" /\ fi_result = << >>)
  /\ (pc \notin {"start", "first_wait"} /\ EmptyGroup(svcFirst))
     => /\ pc \in {"loop", "done"} /\ all_items = << >>
        /\ pc = "loop" => ENABLED Return
        /\ pc = "done" => result = << >>

C9_Witness ==
  EmptyGroup(svcFirst) /\ fg_pc = "ret" /\ fi_pc = "ret" /\ fi_result = << >>
  /\ pc = "done" /\ result = << >>

\* The text the claim expects in column c of item's row: the item's text for
\* that column, the empty string when the item lacks the column.
ExpectedText(item, c) ==
  IF \E j \in 1..Len(item.column_values) : item.column_values[j].id = c
  THEN Str(item.column_values[CHOOSE j \in 1..Len(item.column_values) :
                                item.column_values[j].id = c].text)
  ELSE ""

\* C10: exporting N >= 1 items and reading the artifact back yields N rows, in
\* item order, with each item's identifier, name and column texts, for every
\* item sequence, also when the column set varies between items.
C10_RoundTrip ==
  (ex_pc \in {"done", "raised"} /\ Len(ex_items) >= 1)
  => /\ ex_pc = "done"
     /\ LET back == ReadBack(file.rows)
        IN /\ Len(back) = Len(ex_items)
           /\ \A i \in 1..Len(ex_items) :
                /\ back[i]["Item ID"] = ex_items[i].id
                /\ back[i]["Item Name"] = ex_items[i].name
                /\ \A j \in 1..Len(ex_items[1].column_values) :
                     LET c == ex_items[1].column_values[j].id
                     IN back[i][c] = ExpectedText(ex_items[i], c)

\* C11: export_items_to_csv on an empty item sequence returns normally and
\* leaves the artifact as it was: not created, not truncated, no header row.
C11_EmptyExportNoOp ==
  [][ ex_items = << >>
      => (ex_pc' = "noop" /\ file' = file /\ fieldnames' = fieldnames) ]_vars

C11_Witness == ex_items = << >> /\ ex_pc = "noop" /\ file = OldFile

\* C12: a next-page request is issued only when the response to the previous
\* request has arrived, and it carries the cursor of that response verbatim and
\* the caller's page size, the same as in the request before it.
C12_NextRequestCarriesLatestCursor ==
  [][ (pc # "next_wait" /\ pc' = "next_wait")
      => /\ pc = "loop"
         /\ IsPage(resp) /\ CursorPresent(resp.cursor)
         /\ req'.kind = "next"
         /\ req'.cursor = resp.cursor
         /\ req'.limit = limit /\ req'.limit = req.limit /\ limit' = limit ]_vars

C12_Witness ==
  pc = "next_wait" /\ fetches = 3 /\ req.cursor = "c2" /\ seen = {"c1"}
  /\ resp.cursor = "c2"

\* A response that ends the traversal: anything but a well-formed page with a
\* present cursor (a failure, or a page whose cursor is absent).
StopResponse(r) == r # NoResp /\ ~(IsPage(r) /\ CursorPresent(r.cursor))

\* C13: no bound on the number of fetches is enforced.  The driver has ended
\* only if the latest response is a failure or has no cursor, and then it does
\* end; while the held cursor is present it can only issue the next request,
\* however many it has issued, and every page received is appended in full.
C13_NoUpperBound ==
  /\ [](pc \in Terminal => StopResponse(resp))
  /\ []((pc = "loop" /\ CursorPresent(cursor)) => (ENABLED SendNext /\ ~ENABLED Return))
  /\ (StopResponse(resp) ~> (pc \in Terminal))
  /\ [][ pc' = "loop" => all_items' = all_items \o GetItems(resp') ]_vars

C13_Witness ==
  pc = "loop" /\ CursorPresent(cursor) /\ fetches = MaxFetches /\ repeat
  /\ Len(all_items) = MaxAcc

\* C14: when the traversal has returned, the requests issued number one more
\* than the responses that carried a present cursor (exact below the cap of
\* the request counter).
C14_FetchesCountCursors ==
  (pc = "done" /\ fetches < MaxFetches) => fetches = 1 + present

C14_Witness == mode = "free" /\ pc = "done" /\ fetches = 3 /\ present = 2

\* C15: whether the driver continues depends on the cursor of the latest
\* response alone: with a present cursor its next step is another request, even
\* after a page without items; with an absent cursor its next step is the
\* return, and the result ends with the items of that page.
C15_ContinueOnCursorOnly ==
  [][ pc = "loop"
      => /\ SubSeq(all_items, Len(all_items) - Len(GetItems(resp)) + 1, Len(all_items))
              = GetItems(resp)
         /\ CursorPresent(resp.cursor) => pc' = "next_wait"
         /\ ~CursorPresent(resp.cursor) => (pc' = "done" /\ result' = all_items) ]_vars

C15_Witness ==
  /\ svcFirst.itemsKind = "list" /\ svcFirst.items = << >> /\ svcFirst.cursor = "c1"
  /\ pc = "done" /\ fetches = 2 /\ resp.items = <<2, 1>> /\ resp.cursor = NoneVal
  /\ result = <<2, 1>>

IsPrefix(s, t) == Len(s) <= Len(t) /\ SubSeq(t, 1, Len(s)) = s

\* C16: when fetch_items and fetch_items_recursive both return for the same
\* service, board, group and page size, fetch_items has returned the items of
\* the first page, a prefix of the other's result; fetch_items issues exactly
\* one request.
C16_FetchItemsIsFirstPage ==
  /\ fi_fetches = (IF fi_pc = "idle" THEN 0 ELSE 1)
  /\ (fi_pc = "ret" /\ pc = "done")
     => (fi_result = GetItems(svcFirst) /\ IsPrefix(fi_result, result))

C16_Witness ==
  fi_pc = "ret" /\ pc = "done" /\ fi_fetches = 1 /\ fi_result = <<2, 1>>
  /\ result = <<2, 1, 1>> /\ fetches = 2

====
